---- MODULE Spec2Model ----
(***************************************************************************)
(* A model of "Task 10/filters.py": flux2ABMag, Filter (construction,      *)
(* propagate_flux_density, __call__, __sub__) and Colour (__call__).       *)
(*                                                                         *)
(* Numbers.  numpy's float64 values are modelled as exact rationals        *)
(* <<n, d>> (d > 0, lowest terms) together with the three IEEE special     *)
(* values nan, +inf and -inf, which numpy returns (with a RuntimeWarning,  *)
(* never an exception) from 0/0, x/0 and log10 of a non-positive number.   *)
(* Rounding error is not modelled.  A value r + c*log10(q) is kept         *)
(* symbolically as the triple (r, c, q), so that log10 is the exact real   *)
(* function and not an approximation of it.                                *)
(***************************************************************************)
EXTENDS Integers, Sequences, FiniteSets, TLC

VARIABLES filters, spectrum, colour, result, op, calls, last, fluxIn, mags

vars == <<filters, spectrum, colour, result, op, calls, last, fluxIn, mags>>

----------------------------------------------------------------------------
(* Exact rational arithmetic: the float64 arithmetic of numpy, unrounded.  *)

Abs(n) == IF n < 0 THEN -n ELSE n

RECURSIVE GCD(_, _)
GCD(a, b) == IF b = 0 THEN a ELSE GCD(b, a % b)

RNorm(n, d) ==
  LET g == GCD(Abs(n), Abs(d))
      s == IF d < 0 THEN -1 ELSE 1
  IN  <<(s * n) \div g, (s * d) \div g>>

R(n) == <<n, 1>>

RAdd(a, b) ==
  LET g == GCD(a[2], b[2])
  IN  RNorm(a[1] * (b[2] \div g) + b[1] * (a[2] \div g), (a[2] \div g) * b[2])

RNeg(a) == <<-a[1], a[2]>>

RSub(a, b) == RAdd(a, RNeg(b))

RMul(a, b) ==
  LET g1 == GCD(Abs(a[1]), b[2])
      g2 == GCD(Abs(b[1]), a[2])
  IN  RNorm((a[1] \div g1) * (b[1] \div g2), (a[2] \div g2) * (b[2] \div g1))

\* b # 0
RInv(b) == IF b[1] < 0 THEN <<-b[2], -b[1]>> ELSE <<b[2], b[1]>>

RDiv(a, b) == RMul(a, RInv(b))

RLess(a, b) == a[1] * b[2] < b[1] * a[2]

RSign(a) == IF a[1] > 0 THEN 1 ELSE IF a[1] < 0 THEN -1 ELSE 0

----------------------------------------------------------------------------
(* float64 scalars: a finite rational or one of nan, +inf, -inf.           *)

Fin(q) == [k |-> "fin", v |-> q]
NaN == [k |-> "nan", v |-> R(0)]
PInf == [k |-> "pinf", v |-> R(0)]
NInf == [k |-> "ninf", v |-> R(0)]

\* a float64 of the form r + c * log10(q), q > 0, kept exactly
LogFin(r, c, q) == [k |-> "fin", r |-> r, c |-> c, q |-> q]
LogNaN == [k |-> "nan", r |-> R(0), c |-> R(0), q |-> R(1)]
LogPInf == [k |-> "pinf", r |-> R(0), c |-> R(0), q |-> R(1)]
LogNInf == [k |-> "ninf", r |-> R(0), c |-> R(0), q |-> R(1)]

\* numpy.float64 true division: x/0 is +-inf, 0/0 is nan, no exception
FDiv(a, b) ==
  IF b[1] = 0
  THEN IF a[1] > 0 THEN PInf ELSE IF a[1] < 0 THEN NInf ELSE NaN
  ELSE Fin(RDiv(a, b))

----------------------------------------------------------------------------
(* The units layer (astropy.units), as far as the code uses it.  A length  *)
(* quantity is a value and a unit; UnitScale gives the unit in angstrom.   *)

SpeedOfLight == 3

UnitScale(u) == IF u = "nm" THEN 10 ELSE 1

\* Quantity.to(unit) on one length value
ToUnit(v, from, to) == RMul(v, RNorm(UnitScale(from), UnitScale(to)))

FluxUnits == {"Jy", "mJy"}

\* the value of a frequency flux density in jansky: flux.to(u.Jy).value
ToJy(flux) ==
  IF flux.val.k # "fin" THEN flux.val
  ELSE IF flux.unit = "mJy" THEN Fin(RMul(flux.val.v, <<1, 1000>>))
  ELSE flux.val

----------------------------------------------------------------------------
(* Sequences of rationals.                                                 *)

RECURSIVE Take(_, _)
\* numpy boolean indexing a[select]: the entries whose mask is TRUE, in order
Take(a, select) ==
  IF a = <<>> THEN <<>>
  ELSE (IF Head(select) THEN <<Head(a)>> ELSE <<>>) \o Take(Tail(a), Tail(select))

RECURSIVE RSum(_)
RSum(a) == IF a = <<>> THEN R(0) ELSE RAdd(Head(a), RSum(Tail(a)))

SeqMin(a) == CHOOSE m \in {a[i] : i \in DOMAIN a} : \A i \in DOMAIN a : m <= a[i]
SeqMax(a) == CHOOSE m \in {a[i] : i \in DOMAIN a} : \A i \in DOMAIN a : m >= a[i]

----------------------------------------------------------------------------
(* numpy.interp(x, xp, fp): piecewise linear, clamped outside [xp[0], xp[-1]]. *)

Interp1(x, xp, fp) ==
  LET n == Len(xp)
  IN  IF RLess(x, R(xp[1])) THEN fp[1]
      ELSE IF ~RLess(x, R(xp[n])) THEN fp[n]
      ELSE LET j == CHOOSE i \in 1..(n - 1) :
                      ~RLess(x, R(xp[i])) /\ RLess(x, R(xp[i + 1]))
               slope == RDiv(RSub(fp[j + 1], fp[j]), R(xp[j + 1] - xp[j]))
           IN  RAdd(RMul(slope, RSub(x, R(xp[j]))), fp[j])

Interp(xs, xp, fp) == [i \in DOMAIN xs |-> Interp1(xs[i], xp, fp)]

----------------------------------------------------------------------------
(* scipy.integrate.simps(y, x) with even='avg' (the default of the scipy   *)
(* releases that export simps).  Indices are Python's, 0-based: a[i] of    *)
(* the code is a[i + 1] here.                                              *)

\* the indices slice(start, stop, 2) selects from an array of length n
SliceIdx(start, stop, n) ==
  LET hi == IF stop < 0 THEN (IF n + stop < 0 THEN 0 ELSE n + stop)
            ELSE (IF stop > n THEN n ELSE stop)
  IN  {i \in 0..(n - 1) : i >= start /\ i < hi /\ (i - start) % 2 = 0}

\* one parabolic segment of _basic_simps, on the points i, i+1, i+2
SimpsTerm(y, x, i) ==
  LET h0 == RSub(x[i + 2], x[i + 1])
      h1 == RSub(x[i + 3], x[i + 2])
      hsum == RAdd(h0, h1)
      hprod == RMul(h0, h1)
      h0divh1 == RDiv(h0, h1)
  IN  RMul(RDiv(hsum, R(6)),
           RAdd(RAdd(RMul(y[i + 1], RSub(R(2), RInv(h0divh1))),
                     RMul(y[i + 2], RDiv(RMul(hsum, hsum), hprod))),
                RMul(y[i + 3], RSub(R(2), h0divh1))))

\* _basic_simps(y, start, stop, x, dx, axis): the slices of y and of diff(x)
\* broadcast, so a segment counts only where all three points exist
BasicSimps(y, start, stop, x) ==
  LET n == Len(y)
      idx == {i \in SliceIdx(start, stop, n) : i + 2 <= n - 1}
      terms == [j \in 1..n |-> IF (j - 1) \in idx THEN SimpsTerm(y, x, j - 1) ELSE R(0)]
  IN  RSum(terms)

Trapezoid(y, x, i, j) ==
  RMul(RMul(<<1, 2>>, RSub(x[j], x[i])), RAdd(y[j], y[i]))

Simps(y, x) ==
  LET n == Len(y)
  IN  IF n % 2 = 0
      THEN IF n = 0
           \* x[-1] of an empty array
           THEN [ok |-> FALSE, v |-> R(0)]
           ELSE LET val == RAdd(Trapezoid(y, x, n - 1, n), Trapezoid(y, x, 1, 2))
                    res == RAdd(BasicSimps(y, 0, n - 3, x), BasicSimps(y, 1, n - 2, x))
                IN  [ok |-> TRUE, v |-> RAdd(RDiv(res, R(2)), RDiv(val, R(2)))]
      ELSE [ok |-> TRUE, v |-> BasicSimps(y, 0, n - 2, x)]

----------------------------------------------------------------------------
(* Filter.propagate_flux_density.  A Filter is [wavelengths, unit,         *)
(* response, name]; a Spectrum is [wavelengths, unit, flux_density], its   *)
(* flux density per wavelength.  Wavelength values are integers in the     *)
(* object's own unit.                                                      *)

\* the mask with the range's endpoints let in
SelectMaskInclusive(f, s) ==
  [i \in DOMAIN s.wavelengths |->
     /\ s.wavelengths[i] * UnitScale(s.unit) >= SeqMin(f.wavelengths) * UnitScale(f.unit)
     /\ s.wavelengths[i] * UnitScale(s.unit) <= SeqMax(f.wavelengths) * UnitScale(f.unit)]

\* line 32-33: the mask of the samples strictly inside (min, max); astropy
\* compares the two quantities in a common unit
SelectMask(f, s) ==
  [i \in DOMAIN s.wavelengths |->
     /\ s.wavelengths[i] * UnitScale(s.unit) > SeqMin(f.wavelengths) * UnitScale(f.unit)
     /\ s.wavelengths[i] * UnitScale(s.unit) < SeqMax(f.wavelengths) * UnitScale(f.unit)]

\* line 34
SelectedFlux(f, s) == Take(s.flux_density, SelectMask(f, s))

\* line 35
SelectedWavelength(f, s) == Take(s.wavelengths, SelectMask(f, s))

\* line 36: frequency = c / wavelength, c in angstrom per unit time
Frequency(w, unit) == RDiv(R(SpeedOfLight), R(w * UnitScale(unit)))

\* line 37, w the selected wavelengths
InterpolatedResponse(f, s, w) ==
  Interp([i \in DOMAIN w |-> ToUnit(R(w[i]), s.unit, f.unit)], f.wavelengths, f.response)

\* line 39: (flux_density * wavelength / frequency).to(u.Jy), fd the selected
\* flux densities
FluxDensityJansky(s, w, fd) ==
  [i \in DOMAIN w |->
     RDiv(RMul(fd[i], R(w[i] * UnitScale(s.unit))), Frequency(w[i], s.unit))]

\* the numerator without the division by the wavelength
TopNoWavelength(w, r, j) ==
  Simps([i \in DOMAIN w |-> RMul(r[i], j[i])], [i \in DOMAIN w |-> R(w[i])])

\* line 40, r the interpolated response and j the flux density in Jy
Top(w, r, j) ==
  Simps([i \in DOMAIN w |-> RDiv(RMul(r[i], j[i]), R(w[i]))], [i \in DOMAIN w |-> R(w[i])])

\* the denominator without the response
BottomUnweighted(w, r) ==
  Simps([i \in DOMAIN w |-> RDiv(R(1), R(w[i]))], [i \in DOMAIN w |-> R(w[i])])

\* line 41
Bottom(w, r) ==
  Simps([i \in DOMAIN w |-> RDiv(r[i], R(w[i]))], [i \in DOMAIN w |-> R(w[i])])

\* what a call hands back: a flux quantity, a magnitude, or an exception
Quantity(v, u) == [val |-> v, unit |-> u]
NoMag == LogNaN
NoFlux == Quantity(NaN, "none")
None == [kind |-> "none", exc |-> "none", flux |-> NoFlux, mag |-> NoMag]
Raise(e) == [kind |-> "raise", exc |-> e, flux |-> NoFlux, mag |-> NoMag]
ReturnFlux(q) == [kind |-> "flux", exc |-> "none", flux |-> q, mag |-> NoMag]
ReturnMag(m) == [kind |-> "mag", exc |-> "none", flux |-> NoFlux, mag |-> m]

\* line 42: top / bottom * flux_density_jansky.unit; simps on no sample has
\* raised IndexError before
Ratio(top, bottom) ==
  IF ~top.ok \/ ~bottom.ok THEN Raise("IndexError")
  ELSE ReturnFlux(Quantity(FDiv(top.v, bottom.v), "Jy"))

\* lines 40-42
Integrate(w, r, j) == Ratio(Top(w, r, j), Bottom(w, r))

\* lines 37-42
PropagateSelected(f, s, w, fd) ==
  Integrate(w, InterpolatedResponse(f, s, w), FluxDensityJansky(s, w, fd))

\* lines 25-42: the returned quantity, or the exception that leaves the call
propagate_flux_density(f, s) ==
  PropagateSelected(f, s, SelectedWavelength(f, s), SelectedFlux(f, s))

----------------------------------------------------------------------------
(* flux2ABMag.                                                             *)

\* numpy.log10: -inf at 0, nan below 0, no exception
Log10(x) ==
  CASE x.k = "nan" -> LogNaN
    [] x.k = "pinf" -> LogPInf
    [] x.k = "ninf" -> LogNaN
    [] x.k = "fin" /\ RSign(x.v) > 0 -> LogFin(R(0), R(1), x.v)
    [] x.k = "fin" /\ RSign(x.v) = 0 -> LogNInf
    [] x.k = "fin" /\ RSign(x.v) < 0 -> LogNaN

\* a * x for a finite non-zero a
LogScale(a, x) ==
  CASE x.k = "fin" -> LogFin(RMul(a, x.r), RMul(a, x.c), x.q)
    [] x.k = "nan" -> LogNaN
    [] x.k = "pinf" -> IF RSign(a) > 0 THEN LogPInf ELSE LogNInf
    [] x.k = "ninf" -> IF RSign(a) > 0 THEN LogNInf ELSE LogPInf

\* x - b for a finite b
LogSubConst(x, b) ==
  IF x.k = "fin" THEN LogFin(RSub(x.r, b), x.c, x.q) ELSE x

\* flux.value in place of flux.to(u.Jy).value
flux2ABMagNoUnit(flux) ==
  LogSubConst(LogScale(<<-5, 2>>, Log10(flux.val)), <<486, 10>>)

\* line 9
flux2ABMag(flux) ==
  LogSubConst(LogScale(<<-5, 2>>, Log10(ToJy(flux))), <<486, 10>>)

\* x - y of two float64 values: (r1 + c log q1) - (r2 + c log q2)
LogSub(x, y) ==
  CASE x.k = "nan" \/ y.k = "nan" -> LogNaN
    [] x.k = "fin" /\ y.k = "fin" -> LogFin(RSub(x.r, y.r), x.c, RDiv(x.q, y.q))
    [] x.k = "fin" /\ y.k = "pinf" -> LogNInf
    [] x.k = "fin" /\ y.k = "ninf" -> LogPInf
    [] x.k = "pinf" /\ y.k = "pinf" -> LogNaN
    [] x.k = "ninf" /\ y.k = "ninf" -> LogNaN
    [] x.k = "pinf" /\ y.k \in {"fin", "ninf"} -> LogPInf
    [] x.k = "ninf" /\ y.k \in {"fin", "pinf"} -> LogNInf

\* -x
LogNeg(x) ==
  CASE x.k = "fin" -> LogFin(RNeg(x.r), x.c, RInv(x.q))
    [] x.k = "nan" -> LogNaN
    [] x.k = "pinf" -> LogNInf
    [] x.k = "ninf" -> LogPInf

\* x < y for two values with the same r and c (nan compares FALSE)
LogLess(x, y) ==
  CASE x.k = "nan" \/ y.k = "nan" -> FALSE
    [] x.k = "fin" /\ y.k = "fin" ->
         IF RSign(x.c) > 0 THEN RLess(x.q, y.q)
         ELSE IF RSign(x.c) < 0 THEN RLess(y.q, x.q) ELSE FALSE
    [] x.k = "ninf" /\ y.k # "nan" -> y.k # "ninf"
    [] x.k = "pinf" /\ y.k # "nan" -> FALSE
    [] x.k = "fin" /\ y.k = "pinf" -> TRUE
    [] x.k = "fin" /\ y.k = "ninf" -> FALSE

\* x == y of two float64 values: nan is equal to nothing
LogEq(x, y) == x.k # "nan" /\ y.k # "nan" /\ x = y

----------------------------------------------------------------------------
(* Colour.  A Colour holds references to two Filters: their places in      *)
(* `filters`.                                                              *)

\* lines 95-96: Colour.__init__
Colour(filter1, filter2) == <<filter1, filter2>>

\* the pair the other way round
FilterSubSwapped(self, other) == Colour(other, self)

\* lines 55-65: Filter.__sub__
FilterSub(self, other) == Colour(self, other)

\* the two magnitudes added
ColourResultSum(c, flux1, flux2) ==
  IF flux1.kind = "raise" THEN [ret |-> flux1, calls |-> <<c[1]>>]
  ELSE IF flux2.kind = "raise" THEN [ret |-> flux2, calls |-> <<c[1], c[2]>>]
  ELSE [ret |-> ReturnMag(LogSub(flux2ABMag(flux1.flux), LogNeg(flux2ABMag(flux2.flux)))),
        calls |-> <<c[1], c[2]>>]

\* lines 100-102 after the two propagations: what Colour.__call__ returns
\* (or the exception of the first propagation that failed) and the filters
\* it propagated, in order
ColourResult(c, flux1, flux2) ==
  IF flux1.kind = "raise" THEN [ret |-> flux1, calls |-> <<c[1]>>]
  ELSE IF flux2.kind = "raise" THEN [ret |-> flux2, calls |-> <<c[1], c[2]>>]
  ELSE [ret |-> ReturnMag(LogSub(flux2ABMag(flux1.flux), flux2ABMag(flux2.flux))),
        calls |-> <<c[1], c[2]>>]

\* lines 99-102: Colour.__call__ of the Colour c on the filters fs
ColourCallOn(c, fs, s) ==
  ColourResult(c, propagate_flux_density(fs[c[1]], s), propagate_flux_density(fs[c[2]], s))

----------------------------------------------------------------------------
(* Bounds of the model and the inputs drawn within them.                   *)

MaxWavelength == 6
MaxScale == 3
MaxFluxNum == 2

\* wavelengths in nm: filters are sampled on 1..MaxWavelength, spectra
\* inside it
Wavelengths == 1..MaxWavelength

SpectrumWavelengths == 2..(MaxWavelength - 1)

FilterLens == 2..3

ResponseLevels == 0..1

FluxLevels == 1..2

\* strictly ascending wavelength grids of the given lengths
Grids(lens) ==
  UNION {{g \in [1..n -> Wavelengths] : \A i \in 1..(n - 1) : g[i] < g[i + 1]} : n \in lens}

\* lines 16-22: Filter.__init__
Filter(wavelengths, unit, response, name) ==
  [wavelengths |-> wavelengths, unit |-> unit, response |-> response, name |-> name]

\* filter curves sampled in nm
Filters ==
  UNION {{Filter(g, "nm", [i \in DOMAIN g |-> R(r[i])], "u") :
            r \in [DOMAIN g -> ResponseLevels]} : g \in Grids(FilterLens)}

\* top-hat filters: two grid points, response 1
TopHats == {Filter(g, "nm", <<R(1), R(1)>>, "g") : g \in Grids({2})}

\* the top-hat filters that start at the shortest wavelength
BlueTopHats == {f \in TopHats : f.wavelengths[1] = 1}

\* a spectrum sampled in angstrom at the wavelengths g (nm), given by its
\* frequency flux density j (Jy) at each sample:
\* flux_density = j * c / wavelength^2
SpectrumOf(g, j) ==
  [wavelengths |-> [i \in DOMAIN g |-> g[i] * 10],
   unit |-> "AA",
   flux_density |->
     [i \in DOMAIN g |-> RDiv(R(j[i] * SpeedOfLight), R((g[i] * 10) * (g[i] * 10)))]]

SpectrumGrids ==
  {g \in Grids(0..Cardinality(SpectrumWavelengths)) :
     \A i \in DOMAIN g : g[i] \in SpectrumWavelengths}

Spectra ==
  UNION {{SpectrumOf(g, j) : j \in [DOMAIN g -> FluxLevels]} : g \in SpectrumGrids}

\* spectra sampled at every wavelength of the grid, their frequency flux
\* density not falling with wavelength
RedSpectra ==
  {SpectrumOf(g, j) :
     g \in {h \in SpectrumGrids : Len(h) = Cardinality(SpectrumWavelengths)},
     j \in {k \in [1..Cardinality(SpectrumWavelengths) -> FluxLevels] :
              \A i \in 1..(Cardinality(SpectrumWavelengths) - 1) : k[i] <= k[i + 1]}}

NoSpectrum == SpectrumOf(<<>>, <<>>)

\* flux quantities handed to flux2ABMag directly
FluxInputs ==
  {Quantity(Fin(RNorm(n, d)), u) :
     n \in (-MaxFluxNum)..(2 * MaxFluxNum), d \in 1..2, u \in FluxUnits}
  \cup {Quantity(NaN, "Jy"), Quantity(PInf, "Jy"), Quantity(NInf, "Jy")}

----------------------------------------------------------------------------
(* The operations.                                                         *)

NoOp == [name |-> "none", args |-> <<>>]

ReturnColour == [kind |-> "colour", exc |-> "none", flux |-> NoFlux, mag |-> NoMag]

\* a call that keeps the selected samples in the spectrum
CallTruncating(i) ==
  /\ i \in DOMAIN filters
  /\ result' = propagate_flux_density(filters[i], spectrum)
  /\ op' = [name |-> "call", args |-> <<i>>]
  /\ calls' = <<i>>
  /\ last' = [last EXCEPT ![i] = result']
  /\ spectrum' = [spectrum EXCEPT
                    !.wavelengths = SelectedWavelength(filters[i], spectrum),
                    !.flux_density = SelectedFlux(filters[i], spectrum)]
  /\ UNCHANGED <<filters, colour, fluxIn, mags>>

\* lines 45-52: Filter.__call__, which is propagate_flux_density
Call(i) ==
  /\ i \in DOMAIN filters
  /\ result' = propagate_flux_density(filters[i], spectrum)
  /\ op' = [name |-> "call", args |-> <<i>>]
  /\ calls' = <<i>>
  /\ last' = [last EXCEPT ![i] = result']
  /\ UNCHANGED <<filters, spectrum, colour, fluxIn, mags>>

\* lines 55-65: colour = filters[i] - filters[j]
Sub(i, j) ==
  /\ i \in DOMAIN filters /\ j \in DOMAIN filters
  /\ colour' = FilterSub(i, j)
  /\ result' = ReturnColour
  /\ op' = [name |-> "sub", args |-> <<i, j>>]
  /\ calls' = <<>>
  /\ UNCHANGED <<filters, spectrum, last, fluxIn, mags>>

\* lines 99-102: colour(spectrum)
ColourCall ==
  /\ colour # <<>>
  /\ \E r \in {ColourCallOn(colour, filters, spectrum)} :
       result' = r.ret /\ calls' = r.calls
  /\ op' = [name |-> "colour", args |-> colour]
  /\ UNCHANGED <<filters, spectrum, colour, last, fluxIn, mags>>

\* lines 7-9: flux2ABMag of the next flux of fluxIn
ToMag ==
  /\ Len(mags) < Len(fluxIn)
  /\ mags' = Append(mags, ReturnMag(flux2ABMag(fluxIn[Len(mags) + 1])))
  /\ op' = [name |-> "flux2ABMag", args |-> <<Len(mags) + 1>>]
  /\ UNCHANGED <<filters, spectrum, colour, result, calls, last, fluxIn>>

----------------------------------------------------------------------------
(* Spec: one Filter and one Spectrum, propagated.                          *)

Init ==
  /\ filters \in {<<f>> : f \in Filters}
  /\ spectrum \in Spectra
  /\ colour = <<>>
  /\ result = None
  /\ op = NoOp
  /\ calls = <<>>
  /\ last = [i \in DOMAIN filters |-> None]
  /\ fluxIn = <<>>
  /\ mags = <<>>

Next == \E i \in DOMAIN filters : Call(i)

Spec == Init /\ [][Next]_vars

(* SpecColour: two top-hat Filters and a red Spectrum; the filters are     *)
(* subtracted and the Colour evaluated.                                    *)

InitColour ==
  /\ filters \in {<<f1, f2>> : f1 \in TopHats, f2 \in TopHats}
  /\ spectrum \in RedSpectra
  /\ colour = <<>>
  /\ result = None
  /\ op = NoOp
  /\ calls = <<>>
  /\ last = [i \in DOMAIN filters |-> None]
  /\ fluxIn = <<>>
  /\ mags = <<>>

NextColour ==
  \/ \E i \in DOMAIN filters, j \in DOMAIN filters : Sub(i, j)
  \/ ColourCall

SpecColour == InitColour /\ [][NextColour]_vars

(* SpecCalls: every operation on two Filters, a Colour and a Spectrum, in  *)
(* any order and any number of times.                                      *)

InitCalls ==
  /\ filters \in {<<f1, f2>> : f1 \in BlueTopHats, f2 \in BlueTopHats}
  /\ spectrum \in RedSpectra
  /\ colour = <<>>
  /\ result = None
  /\ op = NoOp
  /\ calls = <<>>
  /\ last = [i \in DOMAIN filters |-> None]
  /\ fluxIn = <<>>
  /\ mags = <<>>

NextCalls ==
  \/ \E i \in DOMAIN filters : Call(i)
  \/ \E i \in DOMAIN filters, j \in DOMAIN filters : Sub(i, j)
  \/ ColourCall

SpecCalls == InitCalls /\ [][NextCalls]_vars

(* SpecMag: flux2ABMag applied to two flux quantities in turn.             *)

InitMag ==
  /\ filters = <<>>
  /\ spectrum = NoSpectrum
  /\ colour = <<>>
  /\ result = None
  /\ op = NoOp
  /\ calls = <<>>
  /\ last = <<>>
  /\ fluxIn \in {<<f1, f2>> : f1 \in FluxInputs, f2 \in FluxInputs}
  /\ mags = <<>>

NextMag == ToMag

SpecMag == InitMag /\ [][NextMag]_vars

----------------------------------------------------------------------------
(* The claims.                                                             *)

\* the filter of the last Filter.__call__
Called == filters[op.args[1]]

\* the places of the spectrum samples strictly inside the filter's range,
\* both wavelengths taken in the filter's unit
Inside(f, s) ==
  {i \in DOMAIN s.wavelengths :
     /\ RLess(R(SeqMin(f.wavelengths)), ToUnit(R(s.wavelengths[i]), s.unit, f.unit))
     /\ RLess(ToUnit(R(s.wavelengths[i]), s.unit, f.unit), R(SeqMax(f.wavelengths)))}

\* the k-th smallest member of a set of places
Kth(S, k) == CHOOSE i \in S : Cardinality({j \in S : j <= i}) = k

\* C1: whenever fewer than 2 spectrum samples lie strictly inside the
\* filter's range, the call fails with EmptyOverlapError.
C1_EmptyOverlapError ==
  (op.name = "call" /\ Cardinality(Inside(Called, spectrum)) < 2)
    => (result.kind = "raise" /\ result.exc = "EmptyOverlapError")

\* the value in Jy of a flux quantity, by the definition of the units
JyValue(flux) ==
  IF flux.unit = "mJy" THEN RDiv(flux.val.v, R(1000)) ELSE flux.val.v

\* C2: flux2ABMag of a flux whose value in Jy is <= 0 fails with a
\* DomainError and returns nothing.
C2_DomainError ==
  \A i \in DOMAIN mags :
    (fluxIn[i].val.k = "fin" /\ ~RLess(R(0), JyValue(fluxIn[i])))
      => (mags[i].kind = "raise" /\ mags[i].exc = "DomainError")

\* C3: the samples propagate integrates are exactly those with
\* min < wavelength < max, in the spectrum's order, each flux density with
\* its own wavelength; a sample at min or at max is left out.
C3_SelectionStrictInOrder ==
  op.name = "call" =>
    LET S == Inside(Called, spectrum)
        w == SelectedWavelength(Called, spectrum)
        fd == SelectedFlux(Called, spectrum)
    IN  /\ Len(w) = Cardinality(S)
        /\ Len(fd) = Cardinality(S)
        /\ \A k \in 1..Cardinality(S) :
             /\ w[k] = spectrum.wavelengths[Kth(S, k)]
             /\ fd[k] = spectrum.flux_density[Kth(S, k)]

C3_Witness ==
  /\ op.name = "call"
  /\ result.kind = "flux"
  /\ \E i \in DOMAIN spectrum.wavelengths :
       spectrum.wavelengths[i] = SeqMin(Called.wavelengths) * 10
  /\ \E i \in DOMAIN spectrum.wavelengths :
       spectrum.wavelengths[i] = SeqMax(Called.wavelengths) * 10
  /\ Cardinality(Inside(Called, spectrum)) >= 2

\* Filter(w, k * r)
ScaledFilter(f, k) ==
  Filter(f.wavelengths, f.unit, [i \in DOMAIN f.response |-> RMul(k, f.response[i])], f.name)

\* the scale factors k, k/2 other than 1
Scales == {RNorm(n, d) : n \in 1..MaxScale, d \in 1..2} \ {R(1)}

\* C4: scaling every response value by the same positive k leaves the
\* propagated flux density unchanged, whenever the unscaled one is defined.
C4_NormalizationInvariance ==
  (op.name = "call" /\ result.kind = "flux" /\ result.flux.val.k = "fin")
    => \A k \in Scales :
         propagate_flux_density(ScaledFilter(Called, k), spectrum) = result

C4_Witness ==
  /\ op.name = "call"
  /\ result.kind = "flux" /\ result.flux.val.k = "fin"
  /\ Len(SelectedWavelength(Called, spectrum)) >= 3
  /\ \E i, j \in DOMAIN Called.response : Called.response[i] # Called.response[j]
  /\ \E i, j \in Inside(Called, spectrum) :
       spectrum.flux_density[i] # spectrum.flux_density[j]

\* the frequency flux density of sample i, f_lambda * lambda^2 / c, in Jy
FNu(s, i) ==
  RDiv(RMul(s.flux_density[i],
            R((s.wavelengths[i] * UnitScale(s.unit)) * (s.wavelengths[i] * UnitScale(s.unit)))),
       R(SpeedOfLight))

\* the denominator integral of the call
BottomOf(f, s) ==
  Bottom(SelectedWavelength(f, s),
         InterpolatedResponse(f, s, SelectedWavelength(f, s)))

\* every sample inside the filter's range has the frequency flux density C
FlatInside(f, s, C) == \A i \in Inside(f, s) : FNu(s, i) = C

\* C8: when every selected sample has the same frequency flux density C
\* and the denominator integral is not zero, propagate returns exactly C.
C8_FlatReproduces ==
  op.name = "call" =>
    \A i \in Inside(Called, spectrum) :
      (/\ FlatInside(Called, spectrum, FNu(spectrum, i))
       /\ BottomOf(Called, spectrum).ok
       /\ BottomOf(Called, spectrum).v # R(0))
        => result = ReturnFlux(Quantity(Fin(FNu(spectrum, i)), "Jy"))

\* a flat-response filter on a flat spectrum that reaches past the filter
C8_Witness ==
  /\ op.name = "call"
  /\ \A i \in DOMAIN Called.response : Called.response[i] = R(1)
  /\ Cardinality(Inside(Called, spectrum)) >= 3
  /\ Cardinality(Inside(Called, spectrum)) < Len(spectrum.wavelengths)
  /\ \E i \in Inside(Called, spectrum) : FlatInside(Called, spectrum, FNu(spectrum, i))
  /\ result.kind = "flux" /\ result.flux.val = Fin(R(2))

\* flat input under a response that is not flat
C8_WitnessCurve ==
  /\ op.name = "call"
  /\ \E i, j \in DOMAIN Called.response : Called.response[i] # Called.response[j]
  /\ Cardinality(Inside(Called, spectrum)) >= 3
  /\ \E i \in Inside(Called, spectrum) : FlatInside(Called, spectrum, FNu(spectrum, i))
  /\ result.kind = "flux" /\ result.flux.val.k = "fin"

\* C10: with every response value >= 0 and at least 3 samples strictly
\* inside the range, the denominator integral is > 0 and the call returns
\* a finite flux density.
C10_NoDivisionByZero ==
  (/\ op.name = "call"
   /\ \A i \in DOMAIN Called.response : RSign(Called.response[i]) >= 0
   /\ Cardinality(Inside(Called, spectrum)) >= 3)
    => (/\ BottomOf(Called, spectrum).ok
        /\ RLess(R(0), BottomOf(Called, spectrum).v)
        /\ result.kind = "flux"
        /\ result.flux.val.k = "fin")

----------------------------------------------------------------------------

\* a propagated flux density that is finite and > 0
Positive(ret) ==
  ret.kind = "flux" /\ ret.flux.val.k = "fin" /\ RSign(ret.flux.val.v) > 0

BothPositive ==
  /\ Positive(propagate_flux_density(filters[colour[1]], spectrum))
  /\ Positive(propagate_flux_density(filters[colour[2]], spectrum))

\* C5: where both filters propagate to a positive flux density,
\* Colour(A, B)(s) == -Colour(B, A)(s).
C5_ColourAntisymmetry ==
  (op.name = "colour" /\ BothPositive)
    => /\ result.kind = "mag"
       /\ LogEq(result.mag,
                LogNeg(ColourCallOn(Colour(colour[2], colour[1]), filters, spectrum).ret.mag))

C5_Witness ==
  /\ op.name = "colour"
  /\ BothPositive
  /\ colour[1] # colour[2]
  /\ result.kind = "mag" /\ result.mag.k = "fin" /\ result.mag.q # R(1)

\* C6: A - B makes the Colour (A, B) and propagates nothing; evaluating
\* it returns flux2ABMag(A(s)) - flux2ABMag(B(s)), each filter propagated
\* once, A first.
C6_SubThenEvaluate ==
  /\ op.name = "sub" =>
       (colour = <<op.args[1], op.args[2]>> /\ calls = <<>> /\ result.kind = "colour")
  /\ (op.name = "colour" /\ result.kind # "raise") =>
       /\ result =
            ReturnMag(LogSub(
              flux2ABMag(propagate_flux_density(filters[colour[1]], spectrum).flux),
              flux2ABMag(propagate_flux_density(filters[colour[2]], spectrum).flux)))
       /\ calls = <<colour[1], colour[2]>>

C6_Witness ==
  /\ op.name = "colour"
  /\ colour = <<2, 1>>
  /\ filters[1] # filters[2]
  /\ result.kind = "mag" /\ result.mag.k = "fin" /\ result.mag.q # R(1)

\* C7: no call changes a Filter, the Colour's pair or the Spectrum, and a
\* filter propagated again returns what it returned before.
C7_Purity ==
  [][/\ filters' = filters
     /\ spectrum' = spectrum
     /\ (op'.name \in {"call", "colour"} => colour' = colour)
     /\ \A i \in DOMAIN filters :
          (op'.name = "call" /\ op'.args = <<i>> /\ last[i].kind # "none")
            => result' = last[i]]_vars

\* both filters propagated, the Colour evaluated in between, and a filter
\* propagated once more
C7_Witness ==
  /\ op.name = "call"
  /\ colour = <<1, 2>>
  /\ filters[1] # filters[2]
  /\ \A i \in DOMAIN filters : last[i].kind = "flux" /\ last[i].flux.val.k = "fin"
  /\ result = last[op.args[1]]

\* C9: for f1 > f2 > 0, flux2ABMag(f1) < flux2ABMag(f2).
C9_MagnitudeMonotone ==
  (/\ Len(mags) = 2
   /\ fluxIn[1].val.k = "fin" /\ fluxIn[2].val.k = "fin"
   /\ RLess(JyValue(fluxIn[2]), JyValue(fluxIn[1]))
   /\ RLess(R(0), JyValue(fluxIn[2])))
    => (/\ mags[1].kind = "mag" /\ mags[2].kind = "mag"
        /\ LogLess(mags[1].mag, mags[2].mag))

\* 3/2 Jy against 1000 mJy
C9_Witness ==
  /\ Len(mags) = 2
  /\ fluxIn[1] = Quantity(Fin(<<3, 2>>), "Jy")
  /\ fluxIn[2] = Quantity(Fin(R(2)), "mJy")
  /\ LogLess(mags[1].mag, mags[2].mag)

====
